---- MODULE Spec2Model ----
(***************************************************************************)
(* Model of the container reconciliation of cv_container_v3.py:           *)
(* container_get_root, list_container_from_top, is_container_exist,       *)
(* container_get_id, container_create and manager_containers_create, and  *)
(* of the mains of cv_container_v3.py and cv_device_v3.py.                *)
(*                                                                         *)
(* Container names are opaque strings that the code only compares for     *)
(* equality.  The key at insertion position i of the topology mapping is  *)
(* named i, so user_topology is the sequence of the parent_container      *)
(* values in the mapping's iteration order; a parent value may point to a *)
(* later or an earlier key, which covers every insertion order.  Root is  *)
(* the name of the CVP root container, Ghost a name that is neither the   *)
(* root nor a key, None is Python's None.                                 *)
(***************************************************************************)
EXTENDS Integers, Sequences, FiniteSets

\* Largest number of containers in a topology given to the resolver.
MaxContainers == 4

\* Largest number of containers in a topology given to a full run with
\* arbitrary remote failures, check mode and initial remote state.
MaxRunContainers == 2

Root == 0
Ghost == -1
None == -2

VARIABLES
    user_topology,                 \* parent_container of key i, in insertion order
    check_mode,                    \* ANSIBLE_MODULE.check_mode
    cvp,                           \* names of the containers existing on Cloudvision
    pc,                            \* position in manager_containers_create
    root_container_name,           \* result of container_get_root
    result_list,                   \* list built by list_container_from_top
    idx,                           \* position of the for loop in the ordered list
    containers_created_counter,
    containers_created,
    add_calls,                     \* calls of api.add_container in this run: name, success
    failed,                        \* some remote call has failed so far
    run,                           \* 1 in the first run, 2 in the repeated run
    cvp_before,                    \* cvp when the first run started
    mode,                          \* cv_container_v3: params['mode']
    changed,                       \* cv_container_v3: result['changed']
    creation_result,               \* cv_container_v3: result['data'] has creation_result
    HAS_CVPRAC,                    \* the cvprac import succeeded
    HAS_JSONSCHEMA,                \* schema.HAS_JSONSCHEMA
    is_valid,                      \* the module's input passes schema validation
    state,                         \* cv_device_v3: params['state']
    device_pc,                     \* position in the main of cv_device_v3
    device_changed                 \* cv_device_v3: result['changed']

\* State of the main of cv_container_v3
main_vars == <<mode, changed, creation_result>>

\* What both mains test before they connect
input_vars == <<HAS_CVPRAC, HAS_JSONSCHEMA, is_valid>>

\* State of the main of cv_device_v3
device_vars == <<state, device_pc, device_changed>>

vars == <<user_topology, check_mode, cvp, pc, root_container_name, result_list,
          idx, containers_created_counter, containers_created, add_calls,
          failed, run, cvp_before, main_vars, input_vars, device_vars>>

Keys(t) == 1..Len(t)

Parents(n) == {Root, Ghost} \cup (1..n)

Topologies(max) == UNION {[1..n -> Parents(n)] : n \in 0..max}

SeqElems(s) == {s[i] : i \in 1..Len(s)}

----------------------------------------------------------------------------
\* ResolveOne with the second test asking whether the parent is a key at all
\* instead of whether it is already in the list
ResolveOne_AnyKey(t, root, r, c) ==
    LET r1 == IF t[c] = root THEN Append(r, c) ELSE r
    IN  IF t[c] \in Keys(t) THEN Append(r1, c) ELSE r1

\* list_container_from_top: body of the for loop for one container
ResolveOne(t, root, r, c) ==
    LET r1 == IF t[c] = root THEN Append(r, c) ELSE r
    IN  IF \E i \in 1..Len(r1) : r1[i] = t[c] THEN Append(r1, c) ELSE r1

\* list_container_from_top: one execution of the for loop, from key c on
RECURSIVE ResolvePassFrom(_, _, _, _)
ResolvePassFrom(t, root, r, c) ==
    IF c > Len(t) THEN r
    ELSE ResolvePassFrom(t, root, ResolveOne(t, root, r, c), c + 1)

\* list_container_from_top: condition of the while loop
ResolveContinue(t, r) == Len(r) < Len(t) + 1

----------------------------------------------------------------------------
\* is_container_exist answering True when the lookup raised
is_container_exist_TrueOnError(ok, container) == ~ok \/ container \in cvp

\* is_container_exist: True only when the lookup succeeds and finds the name
is_container_exist(ok, container) == ok /\ container \in cvp

\* container_get_root
ContainerGetRoot ==
    /\ pc = "root"
    /\ \E ok \in BOOLEAN :
          /\ root_container_name' = IF ok THEN Root ELSE None
          /\ failed' = (failed \/ ~ok)
    /\ pc' = "resolve"
    /\ UNCHANGED <<main_vars, input_vars, device_vars>>
    /\ UNCHANGED <<user_topology, check_mode, cvp, result_list, idx,
                   containers_created_counter, containers_created, add_calls, run, cvp_before>>

\* list_container_from_top: one iteration of the while loop
ResolvePass ==
    /\ pc = "resolve"
    /\ ResolveContinue(user_topology, result_list)
    /\ result_list' = ResolvePassFrom(user_topology, root_container_name, result_list, 1)
    /\ UNCHANGED <<main_vars, input_vars, device_vars>>
    /\ UNCHANGED <<user_topology, check_mode, cvp, pc, root_container_name, idx,
                   containers_created_counter, containers_created, add_calls,
                   failed, run, cvp_before>>

\* list_container_from_top: the while loop ends and the list is returned
ResolveReturn ==
    /\ pc = "resolve"
    /\ ~ResolveContinue(user_topology, result_list)
    /\ pc' = "create"
    /\ idx' = 1
    /\ UNCHANGED <<main_vars, input_vars, device_vars>>
    /\ UNCHANGED <<user_topology, check_mode, cvp, root_container_name, result_list,
                   containers_created_counter, containers_created, add_calls,
                   failed, run, cvp_before>>

----------------------------------------------------------------------------
\* Outcomes of api.add_container: data.status is "success", data.status is
\* something else, or the call raises.
AddOutcomes == {"success", "refused", "raise"}

\* container_get_id: False when the lookup raised, so that result is still the
\* empty dict and result['key'] raises KeyError, which nothing catches
container_get_id_returns(ok) == ok

\* container_create: value of "success" in the returned record
container_create_success(parent_exists, outcome) == parent_exists

\* add_container_called without the check-mode branch
add_container_called_NoCheckMode(parent_exists, id_ok) == parent_exists /\ id_ok

\* container_create: api.add_container is called
add_container_called(parent_exists, id_ok) == parent_exists /\ id_ok /\ ~check_mode

\* create_attempted without the test that the container is missing
create_attempted_NoExistTest(parent_found, container_found) == parent_found

\* manager_containers_create: the container is handed to container_create
create_attempted(parent_found, container_found) ==
    parent_found /\ (container_found = FALSE)

\* manager_containers_create: one iteration of the for loop, container_create
\* included.  ok1..ok4 tell whether the four lookups succeed (parent check,
\* container check, parent check of container_create, container_get_id) and
\* outcome is what api.add_container does.
ManagerCreateStep ==
    /\ pc = "create"
    /\ idx <= Len(result_list)
    /\ LET container == result_list[idx]
           parent == user_topology[container]
       IN \E ok1, ok2, ok3, ok4 \in BOOLEAN, outcome \in AddOutcomes :
            LET parent_found == is_container_exist(ok1, parent)
                container_found == is_container_exist(ok2, container)
                attempted == create_attempted(parent_found, container_found)
                parent_exists == attempted /\ is_container_exist(ok3, parent)
                key_error == parent_exists /\ ~container_get_id_returns(ok4)
                called == add_container_called(parent_exists, ok4)
                counted == attempted /\ ~key_error
                              /\ container_create_success(parent_exists, outcome)
            IN /\ failed' = (failed \/ ~ok1 \/ (parent_found /\ ~ok2)
                                \/ (attempted /\ ~ok3) \/ (parent_exists /\ ~ok4)
                                \/ (called /\ outcome # "success"))
               /\ add_calls' = IF called
                               THEN Append(add_calls, [name |-> container,
                                                       success |-> outcome = "success"])
                               ELSE add_calls
               /\ cvp' = IF called /\ outcome = "success" THEN cvp \cup {container} ELSE cvp
               /\ containers_created_counter' =
                      IF counted THEN containers_created_counter + 1
                      ELSE containers_created_counter
               /\ containers_created' =
                      IF counted THEN Append(containers_created, container)
                      ELSE containers_created
               /\ pc' = IF key_error THEN "abort" ELSE pc
               /\ idx' = IF key_error THEN idx ELSE idx + 1
    /\ UNCHANGED <<main_vars, input_vars, device_vars>>
    /\ UNCHANGED <<user_topology, check_mode, root_container_name, result_list, run,
                   cvp_before>>

\* manager_containers_create: the for loop is over, the record is returned
ManagerReturn ==
    /\ pc = "create"
    /\ idx > Len(result_list)
    /\ pc' = "done"
    /\ UNCHANGED <<main_vars, input_vars, device_vars>>
    /\ UNCHANGED <<user_topology, check_mode, cvp, root_container_name, result_list,
                   idx, containers_created_counter, containers_created, add_calls,
                   failed, run, cvp_before>>

\* manager_containers_create is called again with the same topology, on the
\* remote state the first run left
SecondRun ==
    /\ pc = "done"
    /\ run = 1
    /\ run' = 2
    /\ pc' = "root"
    /\ root_container_name' = None
    /\ result_list' = <<>>
    /\ idx' = 1
    /\ containers_created_counter' = 0
    /\ containers_created' = <<>>
    /\ add_calls' = <<>>
    /\ UNCHANGED <<main_vars, input_vars, device_vars>>
    /\ UNCHANGED <<user_topology, check_mode, cvp, failed, cvp_before>>

----------------------------------------------------------------------------
\* manager_containers_create is called directly, in merge mode
MainIdle == mode = "merge" /\ changed = FALSE /\ creation_result = FALSE

\* Both libraries are installed and the input is schema-valid
InputsFine == HAS_CVPRAC = TRUE /\ HAS_JSONSCHEMA = TRUE /\ is_valid = TRUE

\* cv_device_v3 is not running
DeviceIdle == state = "present" /\ device_pc = "idle" /\ device_changed = FALSE

\* State at the call of manager_containers_create
Start(topologies, modes, remotes) ==
    /\ user_topology \in topologies
    /\ check_mode \in modes
    /\ cvp \in {{Root} \cup s : s \in remotes}
    /\ cvp \subseteq {Root} \cup Keys(user_topology)
    /\ pc = "root"
    /\ root_container_name = None
    /\ result_list = <<>>
    /\ idx = 1
    /\ containers_created_counter = 0
    /\ containers_created = <<>>
    /\ add_calls = <<>>
    /\ failed = FALSE
    /\ run = 1
    /\ cvp_before = cvp
    /\ MainIdle
    /\ InputsFine
    /\ DeviceIdle

Init == Start(Topologies(MaxRunContainers), BOOLEAN, SUBSET (1..MaxRunContainers))

Next ==
    \/ ContainerGetRoot
    \/ ResolvePass
    \/ ResolveReturn
    \/ ManagerCreateStep
    \/ ManagerReturn
    \/ SecondRun

Spec == Init /\ [][Next]_vars

\* Runs on an empty Cloudvision, outside check mode, in which every remote
\* call succeeds
InitFresh == Start(Topologies(MaxContainers), {FALSE}, {{}})

NextFresh ==
    \/ ContainerGetRoot /\ ~failed'
    \/ ResolvePass
    \/ ResolveReturn
    \/ ManagerCreateStep /\ ~failed'
    \/ ManagerReturn
    \/ SecondRun

SpecFresh == InitFresh /\ [][NextFresh]_vars

\* list_container_from_top alone, on every topology and both values that
\* container_get_root can hand to it
InitResolver ==
    /\ user_topology \in Topologies(MaxContainers)
    /\ check_mode = FALSE
    /\ cvp = {Root}
    /\ pc = "resolve"
    /\ root_container_name \in {Root, None}
    /\ result_list = <<>>
    /\ idx = 1
    /\ containers_created_counter = 0
    /\ containers_created = <<>>
    /\ add_calls = <<>>
    /\ failed = (root_container_name = None)
    /\ run = 1
    /\ cvp_before = cvp
    /\ MainIdle
    /\ InputsFine
    /\ DeviceIdle

NextResolver ==
    \/ ResolvePass
    \/ ResolveReturn

SpecResolver == InitResolver /\ [][NextResolver]_vars

----------------------------------------------------------------------------
\* Everything manager_containers_create works on
manager_vars == <<user_topology, check_mode, cvp, root_container_name, result_list,
                  idx, containers_created_counter, containers_created, add_calls,
                  run, cvp_before>>

\* cv_container_v3 main: the tests of the libraries and of the input, then
\* the connection.  With an invalid input the error log reads
\* params['configlets'], which is no parameter of the module: KeyError.
MainChecks ==
    /\ pc = "main"
    /\ \E connected \in BOOLEAN :
          /\ pc' = IF ~HAS_CVPRAC \/ ~HAS_JSONSCHEMA THEN "fail"
                   ELSE IF ~is_valid THEN "abort"
                   ELSE IF connected THEN "connected" ELSE "fail"
          /\ failed' = (failed \/ (HAS_CVPRAC /\ HAS_JSONSCHEMA /\ is_valid /\ ~connected))
    /\ UNCHANGED <<manager_vars, main_vars, input_vars, device_vars>>

\* cv_container_v3 main: the result is instantiated and, in merge and
\* override mode, manager_containers_create is called
MainDispatch ==
    /\ pc = "connected"
    /\ changed' = FALSE
    /\ creation_result' = FALSE
    /\ pc' = IF mode \in {"merge", "override"} THEN "root" ELSE "exit"
    /\ UNCHANGED <<manager_vars, failed, mode, input_vars, device_vars>>

\* cv_container_v3 main: the manager has returned; the result is completed
\* and handed to exit_json
MainExit ==
    /\ pc = "done"
    /\ changed' = (containers_created_counter > 0)
    /\ creation_result' = (containers_created_counter > 0)
    /\ pc' = "exit"
    /\ UNCHANGED <<manager_vars, failed, mode, input_vars, device_vars>>

\* State at the start of the main of cv_container_v3
InitMain ==
    /\ user_topology \in Topologies(MaxRunContainers)
    /\ check_mode \in BOOLEAN
    /\ cvp \in {{Root} \cup s : s \in SUBSET Keys(user_topology)}
    /\ pc = "main"
    /\ root_container_name = None
    /\ result_list = <<>>
    /\ idx = 1
    /\ containers_created_counter = 0
    /\ containers_created = <<>>
    /\ add_calls = <<>>
    /\ failed = FALSE
    /\ run = 1
    /\ cvp_before = cvp
    /\ mode \in {"merge", "override", "delete"}
    /\ changed = FALSE
    /\ creation_result = FALSE
    /\ HAS_CVPRAC \in BOOLEAN
    /\ HAS_JSONSCHEMA \in BOOLEAN
    /\ is_valid \in BOOLEAN
    /\ DeviceIdle

NextMain ==
    \/ MainChecks
    \/ MainDispatch
    \/ ContainerGetRoot
    \/ ResolvePass
    \/ ResolveReturn
    \/ ManagerCreateStep
    \/ ManagerReturn
    \/ MainExit

SpecMain == InitMain /\ [][NextMain]_vars

----------------------------------------------------------------------------
\* cv_device_v3 main: state == 'absent' is refused
DeviceStateCheck ==
    /\ device_pc = "start"
    /\ device_pc' = IF state = "absent" THEN "fail_absent" ELSE "imports"
    /\ UNCHANGED <<manager_vars, pc, failed, main_vars, input_vars, state, device_changed>>

\* check_import: the test of HAS_CVPRAC
DeviceCheckCvprac ==
    /\ device_pc = "imports"
    /\ device_pc' = IF HAS_CVPRAC = FALSE THEN "fail_cvprac" ELSE "jsonschema"
    /\ UNCHANGED <<manager_vars, pc, failed, main_vars, input_vars, state, device_changed>>

\* check_import: the test of schema.HAS_JSONSCHEMA
DeviceCheckJsonschema ==
    /\ device_pc = "jsonschema"
    /\ device_pc' = IF ~HAS_JSONSCHEMA THEN "fail_jsonschema" ELSE "validate"
    /\ UNCHANGED <<manager_vars, pc, failed, main_vars, input_vars, state, device_changed>>

\* cv_device_v3 main: the test of DeviceInventory.is_valid
DeviceValidate ==
    /\ device_pc = "validate"
    /\ device_pc' = IF is_valid THEN "fail_invalid" ELSE "connect"
    /\ UNCHANGED <<manager_vars, pc, failed, main_vars, input_vars, state, device_changed>>

\* cv_device_v3 main: tools_cv.cv_connect
DeviceConnect ==
    /\ device_pc = "connect"
    /\ \E connected \in BOOLEAN :
          /\ device_pc' = IF connected THEN "manager" ELSE "fail_connect"
          /\ failed' = (failed \/ ~connected)
    /\ UNCHANGED <<manager_vars, pc, main_vars, input_vars, state, device_changed>>

\* What CvDeviceTools.manager does: it returns data with changed true or
\* false, or it raises
ManagerOutcomes == {"changed", "unchanged", "raise"}

\* cv_device_v3 main: CvDeviceTools.manager and exit_json
DeviceManager ==
    /\ device_pc = "manager"
    /\ \E outcome \in ManagerOutcomes :
          /\ device_changed' = (outcome = "changed")
          /\ device_pc' = IF outcome = "raise" THEN "abort" ELSE "exit"
          /\ failed' = (failed \/ outcome = "raise")
    /\ UNCHANGED <<manager_vars, pc, main_vars, input_vars, state>>

\* State at the start of the main of cv_device_v3
InitDevice ==
    /\ user_topology = <<>>
    /\ check_mode \in BOOLEAN
    /\ cvp = {Root}
    /\ pc = "idle"
    /\ root_container_name = None
    /\ result_list = <<>>
    /\ idx = 1
    /\ containers_created_counter = 0
    /\ containers_created = <<>>
    /\ add_calls = <<>>
    /\ failed = FALSE
    /\ run = 1
    /\ cvp_before = cvp
    /\ MainIdle
    /\ HAS_CVPRAC \in BOOLEAN
    /\ HAS_JSONSCHEMA \in BOOLEAN
    /\ is_valid \in BOOLEAN
    /\ state \in {"present", "absent"}
    /\ device_pc = "start"
    /\ device_changed = FALSE

NextDevice ==
    \/ DeviceStateCheck
    \/ DeviceCheckCvprac
    \/ DeviceCheckJsonschema
    \/ DeviceValidate
    \/ DeviceConnect
    \/ DeviceManager

SpecDevice == InitDevice /\ [][NextDevice]_vars

\* The resolver and the whole run under the condition that a step that can
\* be taken is taken: the program is sequential and does not pause
SpecResolverFair == SpecResolver /\ WF_vars(NextResolver)

SpecFair == Spec /\ WF_vars(Next)

----------------------------------------------------------------------------
\* The parent chain of container c reaches the root within fuel steps
RECURSIVE ReachesRoot(_, _, _)
ReachesRoot(t, c, fuel) ==
    IF t[c] = Root THEN TRUE
    ELSE IF fuel = 0 \/ t[c] \notin Keys(t) THEN FALSE
    ELSE ReachesRoot(t, t[c], fuel - 1)

\* Every container's parent is the root or, transitively, another key
Valid(t) == \A c \in Keys(t) : ReachesRoot(t, c, Len(t))

\* Some container's parent is neither the root nor a key
Unresolvable(t) == \E c \in Keys(t) : t[c] \notin {Root} \cup Keys(t)

\* list_container_from_top has returned its list
Returned == pc \in {"create", "done", "abort"}

\* C1: a non-check run on a valid topology, started with no container
\* present and with every remote call succeeding, ends with every container
\* existing remotely, count_new_containers equal to the number of containers
\* and list_new_containers naming each of them.
C1_Convergence ==
    (pc = "done" /\ run = 1 /\ ~failed /\ ~check_mode /\ Valid(user_topology))
        => /\ Keys(user_topology) \subseteq cvp
           /\ containers_created_counter = Len(user_topology)
           /\ SeqElems(containers_created) = Keys(user_topology)

\* C2: in the list built by list_container_from_top for a valid topology,
\* every occurrence of a container whose parent is a key comes after an
\* occurrence of that parent.
C2_ParentFirst ==
    Valid(user_topology) =>
        \A j \in 1..Len(result_list) :
            user_topology[result_list[j]] \in Keys(user_topology)
                => \E i \in 1..(j - 1) : result_list[i] = user_topology[result_list[j]]

\* C2 witness: the list was returned for a valid topology in which a placed
\* container is listed in the mapping before its parent.
C2_Witness ==
    /\ pc = "create"
    /\ Valid(user_topology)
    /\ \E c \in SeqElems(result_list) :
          user_topology[c] \in Keys(user_topology) /\ user_topology[c] > c

\* C3: the list returned by list_container_from_top for a valid topology
\* contains every container of the topology.
C3_Complete ==
    (Returned /\ Valid(user_topology))
        => Keys(user_topology) \subseteq SeqElems(result_list)

\* C4: the list returned by list_container_from_top names no container more
\* than once.
C4_PlacedOnce ==
    Returned =>
        \A i, j \in 1..Len(result_list) : i # j => result_list[i] # result_list[j]

\* C5: for a topology with a container whose parent is neither the root nor
\* a key, list_container_from_top does not return an order.
C5_UnresolvableRejected ==
    Unresolvable(user_topology) => ~Returned

C7_OnlyCreatedCounted ==
    [][(/\ Len(add_calls') = Len(add_calls) + 1
        /\ ~add_calls'[Len(add_calls')].success)
          => (/\ containers_created_counter' = containers_created_counter
              /\ containers_created' = containers_created
              /\ pc' = "create"
              /\ idx' = idx + 1)]_vars

\* C8: a step that processes a container which exists remotely issues no
\* api.add_container call and leaves count_new_containers and
\* list_new_containers as they were.
C8_AlreadyExists ==
    [][(pc = "create" /\ idx <= Len(result_list) /\ result_list[idx] \in cvp)
          => (/\ add_calls' = add_calls
              /\ containers_created_counter' = containers_created_counter
              /\ containers_created' = containers_created)]_vars

\* C9: no failure of a remote call aborts the run.
C9_ErrorsIsolated == pc # "abort"

\* C10: in one run api.add_container is called at most once per container
\* name.
C10_NoRetry ==
    \A i, j \in 1..Len(add_calls) : i # j => add_calls[i].name # add_calls[j].name

\* The container that the for loop of manager_containers_create processed last
LastProcessed == result_list[idx - 1]

\* C11: in check mode no api.add_container call is issued and the set of
\* containers existing remotely stays what it was before the run.
C11_DryRunNoEffect ==
    check_mode => (add_calls = <<>> /\ cvp = cvp_before)

\* C11 witness: a check-mode run has returned after it simulated the creation
\* of a missing container.
C11_Witness ==
    /\ check_mode
    /\ pc = "done"
    /\ containers_created_counter >= 1
    /\ \E c \in SeqElems(containers_created) : c \notin cvp

\* C12: a check-mode run on a valid topology in which no remote call failed
\* returns as count_new_containers the number of containers missing remotely
\* and names each of them exactly once in list_new_containers.
C12_DryRunAccounting ==
    (pc = "done" /\ check_mode /\ ~failed /\ Valid(user_topology))
        => /\ containers_created_counter = Cardinality(Keys(user_topology) \ cvp)
           /\ Len(containers_created) = Cardinality(Keys(user_topology) \ cvp)
           /\ SeqElems(containers_created) = Keys(user_topology) \ cvp

\* C13: a step that processes a container whose parent does not exist
\* remotely issues no api.add_container call, leaves count_new_containers and
\* list_new_containers as they were, raises nothing and moves on to the next
\* container.
C13_ParentMissingSkipped ==
    [][(pc = "create" /\ idx <= Len(result_list)
            /\ user_topology[result_list[idx]] \notin cvp)
          => (/\ add_calls' = add_calls
              /\ containers_created_counter' = containers_created_counter
              /\ containers_created' = containers_created
              /\ pc' = "create"
              /\ idx' = idx + 1)]_vars

\* C13 witness: the loop has gone past a container whose parent does not
\* exist remotely (containers are never removed, so it did not exist when
\* the container was processed either).
C13_Witness ==
    /\ pc = "create"
    /\ idx > 1
    /\ user_topology[LastProcessed] \notin cvp

\* C14: for a topology with a container whose parent is neither the root nor
\* a key, no container create is issued and the remote state is not changed.
C14_ConfigErrorBeforeRemote ==
    Unresolvable(user_topology) => (add_calls = <<>> /\ cvp = cvp_before)

\* The parent of the container named in the call of api.add_container that
\* this step issues
NewCallParent == user_topology[add_calls'[Len(add_calls')].name]

C20_ResultInvariant ==
    /\ containers_created_counter = Len(containers_created)
    /\ SeqElems(containers_created) \subseteq Keys(user_topology)
    /\ \A i, j \in 1..Len(containers_created) :
          i # j => containers_created[i] # containers_created[j]
    /\ containers_created_counter <= Len(user_topology)

\* C15: cv_device_v3 fails with the invalid-input error only when the input
\* is not schema-valid, and gets to the connection and beyond only with a
\* schema-valid input.
C15_FailFastOnInvalid ==
    /\ device_pc = "fail_invalid" => ~is_valid
    /\ device_pc \in {"connect", "manager", "fail_connect", "exit", "abort"} => is_valid

\* C17: cv_container_v3 exits in merge and override mode with changed true
\* exactly when count_new_containers > 0 and always with creation_result in
\* the data; in delete mode with changed false and nothing created.
C17_ResultRecord ==
    pc = "exit" =>
        /\ mode \in {"merge", "override"}
              => (changed = (containers_created_counter > 0) /\ creation_result)
        /\ mode = "delete"
              => (~changed /\ add_calls = <<>> /\ cvp = cvp_before)

\* C18: list_container_from_top, given the root name, returns for every valid
\* topology.
C18_ResolverTerminates ==
    (Valid(user_topology) /\ root_container_name = Root) => <>Returned

\* C19: once container_get_root has failed, the run ends, and it issues no
\* api.add_container call.
C19_RootFailureEndsRun ==
    [](((pc = "resolve" /\ root_container_name = None)
            => <>(pc \in {"done", "abort"}))
       /\ (root_container_name = None => add_calls = <<>>))

====
